---- MODULE Spec2Model ----
(***************************************************************************)
(* Dynamic Timetable: the task parser (TaskParser.filterAndParseTasks),    *)
(* the schedule projection (initializeTasks) and the lifecycle engine      *)
(* (completeTask / interruptTask / updateTask) of the TaskManager.         *)
(*                                                                         *)
(* A document is a sequence of lines.  A line is a record that stands for  *)
(* one concrete line of text:                                              *)
(*   kind = "rule"    the line `---`                                       *)
(*   kind = "marker"  the line `startTime: HH:MM:SS`, at = seconds of day  *)
(*   kind = "text"    any other line that is no checklist item, name = its *)
(*                    text                                                 *)
(*   kind = "task"    a checklist item                                     *)
(*        <ind><mark> [<done>] <name>< @pre> ;< est>< @post>               *)
(*        ind   the line is indented (a subtask)                           *)
(*        mark  the list marker, one of - + *                              *)
(*        done  [x] or [ ]                                                 *)
(*        pre   a start-time annotation written before the estimate        *)
(*        delim the estimate delimiter `;` is present                      *)
(*        est   the digits after the delimiter (None when there are none)  *)
(*        post  a start-time annotation written after the estimate         *)
(* An annotation is none, `@ HH:MM` (k = "time", v = minutes of the day)   *)
(* or `@ YYYY-MM-DDTHH:MM` (k = "date", v = minutes since the epoch).      *)
(* A Date is a number of seconds since local midnight of day 0; null is    *)
(* None and a value x is Some(x).                                          *)
(***************************************************************************)
EXTENDS Integers, Sequences, FiniteSets, TLC

None == <<>>
Some(x) == <<x>>

SecondsPerMinute == 60
MinutesPerDay == 1440
DaySeconds == MinutesPerDay * SecondsPerMinute

NoAnn == [k |-> "none", v |-> 0]
TimeAnn(hm) == [k |-> "time", v |-> hm]
DateAnn(m) == [k |-> "date", v |-> m]

Blank ==
  [kind |-> "text", ind |-> FALSE, mark |-> "-", done |-> FALSE, name |-> "",
   pre |-> NoAnn, delim |-> FALSE, est |-> None, post |-> NoAnn, at |-> 0]
RuleLine == [Blank EXCEPT !.kind = "rule"]
MarkerLine(t) == [Blank EXCEPT !.kind = "marker", !.at = t]
TextLine(s) == [Blank EXCEPT !.name = s]
TaskLine(ind, mark, done, name, pre, delim, est, post) ==
  [kind |-> "task", ind |-> ind, mark |-> mark, done |-> done, name |-> name,
   pre |-> pre, delim |-> delim, est |-> est, post |-> post, at |-> 0]

StartOfDay(t) == (t \div DaySeconds) * DaySeconds
Min(a, b) == IF a < b THEN a ELSE b
Max(a, b) == IF a > b THEN a ELSE b

(* plugin.settings.dateDelimiter: "" (the default, matches nothing) or the *)
(* regular expression `---`.                                               *)
VARIABLE dateDelimiter

(* The document of plugin.targetFile, its stat.mtime, and the wall clock.  *)
VARIABLES doc, mtime, now

(* plugin.targetFile !== null; the dictionary file exists; the durations    *)
(* recorded in the dictionary file per task name.                          *)
VARIABLES hasTarget, hasDict, dict

(* plugin.tasks, and the (document, mtime, clock) it was computed from.    *)
VARIABLES tasks, parsedFrom

(* The lifecycle operation in flight: its position (pc) and its locals;    *)
(* last is the record of the operation that finished most recently.        *)
VARIABLES op, last

(* An operation that was started while another one was in flight: the two   *)
(* take turns at their awaits, op being the one that runs next.              *)
VARIABLES other

(* The timetable view and its periodic progress timers.  A timer is          *)
(* [id, tasks]: its handle and the task list its callback refers to.         *)
(* TimetableView (class): tasks is the list loaded by the last update,       *)
(* intervalId its field, timers the timers it has set and not cleared.       *)
(* TimetableViewComponent: state is its `tasks` state, effectId the handle   *)
(* held by the cleanup of the interval effect, effectTimers its timers.      *)
VARIABLES view

(* The plugin's choice of the source file.  targetFile is plugin.targetFile  *)
(* (None for null), filePath is settings.filePath ("" for null or blank),    *)
(* activeFile is what workspace.getActiveFile() returns.  History:           *)
(* configured is the path the user entered in the settings ("" for none),    *)
(* checked says that checkTargetFile has run since it was entered.           *)
VARIABLES plugin

(* Numbers of commands issued, clock advances and edits by the user.       *)
VARIABLES nOps, nTicks, nEdits

vars == <<dateDelimiter, doc, mtime, now, hasTarget, hasDict, dict, tasks,
          parsedFrom, op, other, view, plugin, last, nOps, nTicks, nEdits>>

-----------------------------------------------------------------------------
(* TaskParser *)

isDateDelimiterLine(l) == dateDelimiter = "---" /\ l.kind = "rule"

(* The first annotation of the line that the regular expression accepts:   *)
(* a date-time annotation anywhere in the line wins over a bare time.      *)
parseStartTime(l, nextDay, clock) ==
  IF l.pre.k = "date" THEN Some(l.pre.v * SecondsPerMinute)
  ELSE IF l.post.k = "date" THEN Some(l.post.v * SecondsPerMinute)
  ELSE IF l.pre.k = "time" \/ l.post.k = "time" THEN
    LET hm == IF l.pre.k = "time" THEN l.pre.v ELSE l.post.v
    IN  Some(StartOfDay(clock) + nextDay * DaySeconds
             + hm * SecondsPerMinute + (clock % SecondsPerMinute))
  ELSE None

parseEstimate(l) == IF l.delim THEN l.est ELSE None

RECURSIVE FirstMarker(_, _)
FirstMarker(content, i) ==
  IF i > Len(content) THEN 0
  ELSE IF content[i].kind = "marker" THEN i
  ELSE FirstMarker(content, i + 1)

getYamlStartTime(content, clock) ==
  LET i == FirstMarker(content, 1)
  IN  IF i = 0 THEN None ELSE Some(StartOfDay(clock) + content[i].at)

ParserInit ==
  [previousEndTime |-> None, firstUncompletedTaskFound |-> FALSE,
   nextDay |-> 0, dateDelimiterFound |-> FALSE, acc |-> <<>>]

PushMutant(acc, task) ==
  IF task.isCompleted THEN <<task>> \o acc ELSE Append(acc, task)

(* acc.push(task): the list keeps the order in which the lines are read.     *)
Push(acc, task) == Append(acc, task)

(* One iteration of the reduce callback on line i of the content.  The     *)
(* field line of a task is the index of its source line (not a field of    *)
(* the program's Task; it names the line in the properties).               *)
ParserStep(st, content, i, clock) ==
  LET l == content[i]
      yamlStartTime == getYamlStartTime(content, clock)
  IN
  IF isDateDelimiterLine(l) THEN
    [st EXCEPT !.dateDelimiterFound = st.firstUncompletedTaskFound \/ @]
  ELSE IF l.kind # "task" THEN st
  ELSE
    LET isCompleted == l.done
        nextDay == IF st.dateDelimiterFound THEN st.nextDay + 1 ELSE st.nextDay
        estimate == parseEstimate(l)
        parsed == parseStartTime(l, nextDay, clock)
        first == ~isCompleted /\ ~st.firstUncompletedTaskFound
        startTime ==
          IF first THEN yamlStartTime
          ELSE IF parsed = None /\ st.previousEndTime # None
               THEN st.previousEndTime
          ELSE parsed
        endTime ==
          IF startTime # None /\ estimate # None
          THEN Some(startTime[1] + estimate[1] * SecondsPerMinute)
          ELSE None
        task == [task |-> l.name, startTime |-> startTime,
                 estimate |-> estimate, endTime |-> endTime,
                 isCompleted |-> isCompleted,
                 originalStartTime |-> parsed # None, line |-> i]
    IN  [previousEndTime |-> IF endTime # None THEN endTime ELSE st.previousEndTime,
         firstUncompletedTaskFound |-> st.firstUncompletedTaskFound \/ first,
         nextDay |-> nextDay,
         dateDelimiterFound |-> FALSE,
         acc |-> IF estimate # None THEN Push(st.acc, task) ELSE st.acc]

RECURSIVE ParserRun(_, _, _, _)
ParserRun(st, content, i, clock) ==
  IF i > Len(content) THEN st
  ELSE ParserRun(ParserStep(st, content, i, clock), content, i + 1, clock)

filterAndParseTasks(content, clock) == ParserRun(ParserInit, content, 1, clock).acc

(* tasks.find((task) => !task.isCompleted): its index in the list, 0 when   *)
(* there is none.                                                          *)
RECURSIVE FindUncompleted(_, _)
FindUncompleted(ts, i) ==
  IF i > Len(ts) THEN 0
  ELSE IF ~ts[i].isCompleted THEN i
  ELSE FindUncompleted(ts, i + 1)

-----------------------------------------------------------------------------
(* TaskManager *)

initializeTasksMutant(content, modified, clock) ==
  LET ts == filterAndParseTasks(content, clock)
  IN  IF Len(ts) > 0 /\ ts[1].startTime = None
      THEN [ts EXCEPT ![1].startTime = Some(modified)]
      ELSE ts

initializeTasks(content, modified, clock) ==
  LET ts == filterAndParseTasks(content, clock)
  IN  IF Len(ts) > 0 /\ ts[1].startTime = None
      THEN [ts EXCEPT ![1].startTime = Some(modified),
                      ![1].endTime = Some(modified + ts[1].estimate[1] * SecondsPerMinute)]
      ELSE ts

(* Date.getHours/getMinutes of a date, as the annotation `@ HH:MM`.        *)
formatTime(date) == TimeAnn((date % DaySeconds) \div SecondsPerMinute)

getElapsedTimeMutant(content, clock) ==
  LET startTime == getYamlStartTime(content, clock)
  IN  IF startTime = None THEN 0
      ELSE Max(0, (clock - startTime[1]) \div SecondsPerMinute)

(* (Date.now() - startTime) / 60000, plus 24 * 60 when negative, floored.    *)
getElapsedTime(content, clock) ==
  LET startTime == getYamlStartTime(content, clock)
  IN  IF startTime = None THEN 0
      ELSE LET diff == clock - startTime[1]
               wrapped == IF diff < 0 THEN diff + DaySeconds ELSE diff
           IN  Max(0, wrapped \div SecondsPerMinute)

(* taskRegex: `- [ ] ` at the very start of the line, a name, the estimate  *)
(* delimiter, optional digits, an optional `@ H:MM` annotation, the end of  *)
(* the line.  An annotation before the delimiter falls into the name group. *)
TaskRegexMatches(l) ==
  /\ l.kind = "task"
  /\ ~l.ind
  /\ l.mark = "-"
  /\ ~l.done
  /\ l.delim
  /\ l.post.k # "date"

RECURSIVE FirstMatch(_, _)
FirstMatch(content, i) ==
  IF i > Len(content) THEN 0
  ELSE IF TaskRegexMatches(content[i]) THEN i
  ELSE FirstMatch(content, i + 1)

(* The line written over the matched line l.                               *)
CompletedLine(l, elapsedTime, clock) ==
  TaskLine(FALSE, "-", TRUE, l.name, l.pre, TRUE, Some(elapsedTime),
           formatTime(clock - elapsedTime * SecondsPerMinute))

(* newTaskToAdd *)
RemainingLine(l, remainingTime) ==
  TaskLine(FALSE, "-", FALSE, l.name, l.pre, TRUE, Some(remainingTime), NoAnn)

InsertAt(s, i, x) == SubSeq(s, 1, i) \o <<x>> \o SubSeq(s, i + 1, Len(s))

updateTaskInContentMutant(content, elapsedTime, remainingTime, clock) ==
  LET i == FirstMatch(content, 1)
  IN  IF i = 0 THEN content
      ELSE LET rewritten ==
                 [content EXCEPT ![i] = CompletedLine(content[i], elapsedTime, clock)]
           IN  IF remainingTime # None /\ remainingTime[1] > 0
               THEN InsertAt(rewritten, i, RemainingLine(content[i], remainingTime[1]))
               ELSE rewritten

(* remainingTime is None for undefined.                                    *)
updateTaskInContent(content, elapsedTime, remainingTime, clock) ==
  LET i == FirstMatch(content, 1)
  IN  IF i = 0 THEN content
      ELSE LET rewritten ==
                 [content EXCEPT ![i] = CompletedLine(content[i], elapsedTime, clock)]
           IN  IF remainingTime # None
               THEN InsertAt(rewritten, i, RemainingLine(content[i], remainingTime[1]))
               ELSE rewritten

(* String.prototype.replace with a replacement string: `$$` in the          *)
(* replacement stands for one `$`.                                          *)
GetSubstitution(s) == IF s = "fee $$5" THEN "fee $5" ELSE s

SubstLine(l) == [l EXCEPT !.name = GetSubstitution(l.name)]

RECURSIVE NextRule(_, _)
NextRule(content, i) ==
  IF i > Len(content) THEN 0
  ELSE IF content[i].kind = "rule" THEN i
  ELSE NextRule(content, i + 1)

(* The first match of /---\n([\s\S]*?)\n---/: the first `---` line i that    *)
(* has a `---` line at i+2 or later; the group is the lines between it and   *)
(* the first such line.  0 when there is no match.                           *)
RECURSIVE YamlBlockOpen(_, _)
YamlBlockOpen(content, i) ==
  IF i > Len(content) THEN 0
  ELSE IF content[i].kind = "rule" /\ NextRule(content, i + 2) # 0 THEN i
  ELSE YamlBlockOpen(content, i + 1)

updateStartTimeInYAML(content, startTime) ==
  LET formattedTime == MarkerLine(startTime % DaySeconds)
      open == YamlBlockOpen(content, 1)
  IN  IF open # 0 THEN
        LET close == NextRule(content, open + 2)
            yamlBlock == SubSeq(content, open + 1, close - 1)
            m == FirstMarker(yamlBlock, 1)
            newBlock == IF m # 0 THEN [yamlBlock EXCEPT ![m] = formattedTime]
                        ELSE Append(yamlBlock, formattedTime)
        IN  SubSeq(content, 1, open)
              \o [j \in 1..Len(newBlock) |-> SubstLine(newBlock[j])]
              \o SubSeq(content, close, Len(content))
      ELSE <<RuleLine, formattedTime, RuleLine>> \o content

MaxRecent == 20

(* The line of the dictionary file for a task name: 0 when there is none.  *)
RECURSIVE DictLine(_, _, _)
DictLine(d, name, i) ==
  IF i > Len(d) THEN 0
  ELSE IF d[i].name = name THEN i
  ELSE DictLine(d, name, i + 1)

(* calculateMedian: the middle value of the sorted values, or the mean of   *)
(* the two middle ones, rounded up.                                         *)
calculateMedian(values) ==
  LET sorted == SortSeq(values, LAMBDA x, y : x < y)
      mid == Len(sorted) \div 2
  IN  IF Len(sorted) % 2 # 0 THEN sorted[mid + 1]
      ELSE (sorted[mid] + sorted[mid + 1] + 1) \div 2

RECURSIVE SumSeq(_)
SumSeq(s) == IF s = <<>> THEN 0 ELSE Head(s) + SumSeq(Tail(s))

calculateTrimmedMeanMutant(values) ==
  IF Len(values) <= 2 THEN calculateMedian(values)
  ELSE LET sorted == SortSeq(values, LAMBDA x, y : x < y)
           trimmed == SubSeq(sorted, 1, Len(sorted) - 1)
       IN  (SumSeq(trimmed) + Len(trimmed) - 1) \div Len(trimmed)

(* calculateTrimmedMean: the median for up to two values; else the mean of   *)
(* the sorted values without the last and the first one, rounded up.         *)
calculateTrimmedMean(values) ==
  IF Len(values) <= 2 THEN calculateMedian(values)
  ELSE LET sorted == SortSeq(values, LAMBDA x, y : x < y)
           trimmed == SubSeq(sorted, 2, Len(sorted) - 1)
       IN  (SumSeq(trimmed) + Len(trimmed) - 1) \div Len(trimmed)

(* Task names with a comma in them.                                          *)
HasComma(name) == name = "a, b"

(* The recent times read back from a line of the dictionary file:            *)
(* match[1].split(',')[2].split('%%')[1].  The third comma-separated field   *)
(* is `name%%t1|t2%%` unless the name itself has a comma, and then it is a   *)
(* piece of the name with no %% in it.                                       *)
ParseRecentTimes(entry) ==
  IF HasComma(entry.name) THEN <<>> ELSE entry.recentTimes

(* recentTimes.push(elapsedTime) done: the oldest goes above MaxRecent.      *)
RecentTimes(pushed) ==
  IF Len(pushed) > MaxRecent THEN Tail(pushed) ELSE pushed

(* The line written for a name and its recent times.                         *)
DictEntry(name, elapsedTime, recentTimes) ==
  [name |-> name, trimmedMean |-> calculateTrimmedMean(recentTimes),
   median |-> calculateMedian(recentTimes), recent |-> elapsedTime,
   recentTimes |-> recentTimes]

(* updateDictionaryFile from the read of the dictionary file on: push the   *)
(* elapsed time on the recent times of the name, drop the oldest above      *)
(* MaxRecent, replace the line of the name or append a new one.             *)
DictionaryUpdate(d, name, elapsedTime) ==
  LET i == DictLine(d, name, 1)
      old == IF i # 0 THEN ParseRecentTimes(d[i]) ELSE <<>>
      recentTimes == RecentTimes(Append(old, elapsedTime))
      newLine == DictEntry(name, elapsedTime, recentTimes)
  IN  IF i # 0 THEN [d EXCEPT ![i] = newLine] ELSE Append(d, newLine)

-----------------------------------------------------------------------------
(* The operations *)

NoTask ==
  [task |-> "", startTime |-> None, estimate |-> None, endTime |-> None,
   isCompleted |-> FALSE, originalStartTime |-> FALSE, line |-> 0]

Idle ==
  [pc |-> "idle", kind |-> "none", task |-> NoTask, remainingTime |-> None,
   content |-> <<>>, elapsedTime |-> 0, now |-> 0, name |-> "",
   hadTarget |-> FALSE, before |-> <<>>, dictBefore |-> <<>>,
   read |-> <<>>, wrote |-> <<>>, after |-> <<>>, dictAfter |-> <<>>,
   writeClock |-> 0]

Env == <<dateDelimiter, hasTarget, hasDict, tasks, parsedFrom, other, view,
        plugin, nTicks, nEdits>>

(* An operation returns: op becomes Idle and last records the operation.    *)
Return(o, d, dc) ==
  /\ last' = [o EXCEPT !.pc = "done", !.after = d, !.dictAfter = dc]
  /\ op' = Idle

(* updateTask: `if (!plugin.targetFile || !task.estimate) return`.  The      *)
(* estimate is a string of digits, and "0" is truthy.                        *)
updateTaskReturnsMutant(target, task) == ~target

updateTaskReturns(target, task) == ~target \/ task.estimate = None

(* updateTask up to its first await (the guard); o holds the caller's      *)
(* record with task and remainingTime filled in.                           *)
UpdateTaskCall(o) ==
  IF updateTaskReturns(hasTarget, o.task)
  THEN Return(o, doc, dict)
  ELSE op' = [o EXCEPT !.pc = "ut_read"] /\ UNCHANGED last

Started(kind) ==
  [Idle EXCEPT !.kind = kind, !.hadTarget = hasTarget, !.before = doc,
               !.read = doc, !.wrote = doc, !.after = doc,
               !.dictBefore = dict, !.dictAfter = dict]

MaxOps == 2

(* CommandsManager.completeTask: the command `Complete Task`.               *)
CommandCompleteTask ==
  /\ op.pc = "idle"
  /\ nOps < MaxOps
  /\ FindUncompleted(tasks, 1) # 0
  /\ UpdateTaskCall([Started("complete") EXCEPT
                       !.task = tasks[FindUncompleted(tasks, 1)]])
  /\ nOps' = nOps + 1
  /\ UNCHANGED <<doc, mtime, now, dict, Env>>

(* taskManager.completeTask(task) called with a task that has no estimate   *)
(* (Task.estimate is string | null).                                        *)
CompleteTaskCall ==
  /\ op.pc = "idle"
  /\ nOps < MaxOps
  /\ UpdateTaskCall([Started("complete") EXCEPT
                       !.task = [NoTask EXCEPT !.task = "A"]])
  /\ nOps' = nOps + 1
  /\ UNCHANGED <<doc, mtime, now, dict, Env>>

(* CommandsManager.interruptTask and interruptTask up to its first await.   *)
CommandInterruptTask ==
  /\ op.pc = "idle"
  /\ nOps < MaxOps
  /\ FindUncompleted(tasks, 1) # 0
  /\ IF ~hasTarget
     THEN Return(Started("interrupt"), doc, dict)
     ELSE op' = [Started("interrupt") EXCEPT !.pc = "it_read"] /\ UNCHANGED last
  /\ nOps' = nOps + 1
  /\ UNCHANGED <<doc, mtime, now, dict, Env>>

(* interruptTask after its cachedRead: the remaining time of the first      *)
(* uncompleted task, then the call of updateTask.                           *)
InterruptRead ==
  /\ op.pc = "it_read"
  /\ LET ts == filterAndParseTasks(doc, now)
         elapsedTime == getElapsedTime(doc, now)
         j == FindUncompleted(ts, 1)
     IN  IF j = 0 THEN Return(op, doc, dict)
         ELSE UpdateTaskCall([op EXCEPT
                !.task = ts[j],
                !.remainingTime = Some(Max(0, ts[j].estimate[1] - elapsedTime))])
  /\ UNCHANGED <<doc, mtime, now, dict, nOps, Env>>

(* updateTask after its first cachedRead; updateDictionaryFile up to its    *)
(* cachedRead of the target file.                                           *)
UpdateRead ==
  /\ op.pc = "ut_read"
  /\ op' = [op EXCEPT !.pc = "ud_read", !.content = doc, !.read = doc,
                      !.elapsedTime = getElapsedTime(doc, now)]
  /\ UNCHANGED <<doc, mtime, now, dict, last, nOps, Env>>

(* updateDictionaryFile after the read of the target file.                  *)
DictionaryRead ==
  /\ op.pc = "ud_read"
  /\ LET ts == filterAndParseTasks(doc, now)
         j == FindUncompleted(ts, 1)
     IN  IF j = 0 \/ ~hasDict
         THEN op' = [op EXCEPT !.pc = "ut_write"]
         ELSE op' = [op EXCEPT !.pc = "ud_dict", !.name = ts[j].task]
  /\ UNCHANGED <<doc, mtime, now, dict, last, nOps, Env>>

(* updateDictionaryFile: the read and the write of the dictionary file.     *)
DictionaryWrite ==
  /\ op.pc = "ud_dict"
  /\ dict' = DictionaryUpdate(dict, op.name, op.elapsedTime)
  /\ op' = [op EXCEPT !.pc = "ut_write"]
  /\ UNCHANGED <<doc, mtime, now, last, nOps, Env>>

ContentToModifyMutant(o, current) == current

(* The text that updateTask rewrites and writes back: its local `content`,   *)
(* read before the awaits, not the file as it is at the time of the write.   *)
ContentToModify(o, current) == o.content

(* updateTask: updateTaskInContent on the content read earlier, and the     *)
(* first vault.modify.                                                      *)
UpdateWrite ==
  /\ op.pc = "ut_write"
  /\ doc' = updateTaskInContent(ContentToModify(op, doc), op.elapsedTime,
                              op.remainingTime, now)
  /\ mtime' = now
  /\ op' = [op EXCEPT !.pc = "ut_now", !.wrote = doc', !.writeClock = now]
  /\ UNCHANGED <<now, dict, last, nOps, Env>>

(* updateTask: `const now = new Date()` and the second cachedRead.          *)
UpdateNow ==
  /\ op.pc = "ut_now"
  /\ op' = [op EXCEPT !.pc = "ut_yaml", !.now = now]
  /\ UNCHANGED <<doc, mtime, now, dict, last, nOps, Env>>

(* updateTask: updateStartTimeInYAML on the content read again, the second  *)
(* vault.modify, and the return.                                            *)
UpdateYaml ==
  /\ op.pc = "ut_yaml"
  /\ doc' = updateStartTimeInYAML(doc, op.now)
  /\ mtime' = now
  /\ Return(op, doc', dict)
  /\ UNCHANGED <<now, dict, nOps, Env>>

(* initTimetableView: plugin.tasks = await initializeTasks().                *)
InitTimetableView ==
  /\ tasks' = IF hasTarget THEN initializeTasks(doc, mtime, now) ELSE <<>>
  /\ parsedFrom' = [doc |-> doc, mtime |-> mtime, now |-> now]
  /\ \/ tasks' # tasks
     \/ parsedFrom' # parsedFrom
  /\ UNCHANGED <<dateDelimiter, doc, mtime, now, hasTarget, hasDict, dict, op, other,
                 view, plugin, last, nOps, nTicks, nEdits>>

(* The Markdown files of the vault, and the paths a user may enter.          *)
Vault == { "a.md", "b.md", "c.md" }
Paths == {""} \cup Vault \cup {"missing.md"}

(* vault.getAbstractFileByPath(path): the file, or null.                     *)
getAbstractFileByPath(path) == IF path \in Vault THEN Some(path) ELSE None

(* The plugin after a view was opened on the active file a.md with no path   *)
(* entered in the settings.                                                  *)
Opened ==
  [targetFile |-> Some("a.md"), filePath |-> "a.md", activeFile |-> Some("a.md"),
   configured |-> "", checked |-> TRUE]

(* DynamicTimetable.checkTargetFile with updateFilePathSetting.              *)
checkTargetFile(p) ==
  LET abstractFile ==
        IF p.targetFile = None /\ p.filePath # ""
          THEN getAbstractFileByPath(p.filePath)
          ELSE p.activeFile
  IN  IF abstractFile # None
        THEN IF p.targetFile # abstractFile
               THEN [p EXCEPT !.targetFile = abstractFile,
                              !.filePath = abstractFile[1],
                              !.checked = TRUE]
               ELSE [p EXCEPT !.checked = TRUE]
        ELSE [p EXCEPT !.targetFile = None, !.checked = TRUE]

(* checkTargetFile when there is no active Markdown file:                   *)
(* plugin.targetFile = null.                                                 *)
CheckTargetFile ==
  /\ hasTarget
  /\ hasTarget' = FALSE
  /\ plugin' = checkTargetFile([plugin EXCEPT !.activeFile = None])
  /\ UNCHANGED <<dateDelimiter, doc, mtime, now, hasDict, dict, tasks,
                 parsedFrom, op, other, view, last, nOps, nTicks, nEdits>>

(* openTimetable, openStatistics and updateOpenViews call checkTargetFile.   *)
UpdateOpenViews ==
  /\ plugin' = checkTargetFile(plugin)
  /\ hasTarget' = (plugin'.targetFile # None)
  /\ UNCHANGED <<dateDelimiter, doc, mtime, now, hasDict, dict, tasks,
                 parsedFrom, op, other, view, last, nOps, nTicks, nEdits>>

(* The user enters a path in the File Path setting: updateSetting stores    *)
(* it and calls updateOpenViews, which calls checkTargetFile for every open  *)
(* timetable view.                                                           *)
OnFilePathChange ==
  \E value \in Paths, open \in BOOLEAN :
    /\ LET entered == [plugin EXCEPT !.filePath = value,
                                     !.configured = value,
                                     !.checked = FALSE]
       IN  plugin' = IF open THEN checkTargetFile(entered) ELSE entered
    /\ hasTarget' = (plugin'.targetFile # None)
    /\ UNCHANGED <<dateDelimiter, doc, mtime, now, hasDict, dict, tasks,
                   parsedFrom, op, other, view, last, nOps, nTicks, nEdits>>

(* The user brings another file, or no file, to the front.                   *)
SetActiveFile ==
  \E f \in {None} \cup { Some(x) : x \in Vault } :
    /\ f # plugin.activeFile
    /\ plugin' = [plugin EXCEPT !.activeFile = f]
    /\ UNCHANGED <<dateDelimiter, doc, mtime, now, hasTarget, hasDict, dict, tasks,
                   parsedFrom, op, other, view, last, nOps, nTicks, nEdits>>

TickSeconds == 30
MaxTicks == 1

MaxTimers == 3

(* The views as they are opened: the class view has set no timer; the        *)
(* component has its empty `tasks` state and the timer of its first render.  *)
Mounted ==
  [tasks |-> <<>>, intervalId |-> None, timers |-> {},
   state |-> <<>>, effectId |-> 0, effectTimers |-> {[id |-> 0, tasks |-> <<>>]},
   nextId |-> 1]

(* clearInterval(id): the timer with that handle is no longer active.        *)
ClearInterval(timers, id) == { t \in timers : t.id # id }

(* TimetableView.setupInterval(tasks).                                       *)
setupInterval(v, ts) ==
  IF Len(ts) = 0 THEN v
  ELSE [v EXCEPT
          !.intervalId = Some(v.nextId),
          !.timers =
             (IF v.intervalId = None THEN @ ELSE ClearInterval(@, v.intervalId[1]))
               \cup {[id |-> v.nextId, tasks |-> ts]},
          !.nextId = @ + 1]

(* TimetableView.update: it returns at once without a target file; else it  *)
(* loads the task list, renders it and calls setupInterval.                  *)
ViewUpdate ==
  /\ hasTarget
  /\ view.nextId < MaxTimers
  /\ LET ts == initializeTasks(doc, mtime, now)
     IN  view' = setupInterval([view EXCEPT !.tasks = ts], ts)
  /\ view' # view
  /\ UNCHANGED <<dateDelimiter, doc, mtime, now, hasTarget, hasDict, dict, tasks,
                 parsedFrom, op, other, plugin, last, nOps, nTicks, nEdits>>

(* TimetableViewComponent.update: setTasks(newTasks); the interval effect    *)
(* depends on `tasks`, so its cleanup clears the timer of the render before  *)
(* and the effect sets a timer over the new list.                            *)
ComponentUpdate ==
  /\ view.nextId < MaxTimers
  /\ LET newTasks == IF hasTarget THEN initializeTasks(doc, mtime, now) ELSE <<>>
     IN  view' = [view EXCEPT
                    !.state = newTasks,
                    !.effectId = view.nextId,
                    !.effectTimers =
                       ClearInterval(@, view.effectId)
                         \cup {[id |-> view.nextId, tasks |-> newTasks]},
                    !.nextId = @ + 1]
  /\ UNCHANGED <<dateDelimiter, doc, mtime, now, hasTarget, hasDict, dict, tasks,
                 parsedFrom, op, other, plugin, last, nOps, nTicks, nEdits>>

(* filteredTasks: all tasks when settings.showCompletedTasks is on, else     *)
(* the uncompleted ones.                                                     *)
filteredTasks(ts, showCompletedTasks) ==
  IF showCompletedTasks THEN ts ELSE SelectSeq(ts, LAMBDA t : ~t.isCompleted)

(* calculateBufferTime(currentTaskEndTime, taskStartTime, index); index      *)
(* counts from 0 and currentTaskEndTime is never null at the call.           *)
calculateBufferTime(currentTaskEndTime, taskStartTime, index) ==
  IF index = 0 THEN Some(0)
  ELSE IF taskStartTime # None
    THEN Some((taskStartTime[1] - currentTaskEndTime + SecondsPerMinute - 1)
                \div SecondsPerMinute)
    ELSE None

(* The bufferTime of the k-th row of the table:                              *)
(* calculateBufferTime(previousTask?.endTime || new Date(), task.startTime,  *)
(* index).                                                                   *)
BufferTimeOf(ft, k, clock) ==
  calculateBufferTime(
    IF k > 1 /\ ft[k - 1].endTime # None THEN ft[k - 1].endTime[1] ELSE clock,
    ft[k].startTime, k - 1)

(* The BufferTimeRow elements of the table, each with the line of the task   *)
(* it stands in front of; settings.showBufferTime is on.                     *)
BufferRows(ts, showCompletedTasks, clock) ==
  LET ft == filteredTasks(ts, showCompletedTasks)
      first == FindUncompleted(ts, 1)
      firstLine == IF first = 0 THEN 0 ELSE ts[first].line
  IN  { [line |-> ft[k].line, bufferTime |-> BufferTimeOf(ft, k, clock)[1]] :
          k \in { n \in 1..Len(ft) :
                    /\ BufferTimeOf(ft, n, clock) \notin {None, Some(0)}
                    /\ ft[n].line # firstLine
                    /\ ~ft[n].isCompleted } }

(* The promise that op awaits is not the next to settle: the other           *)
(* operation takes its turn, or, when none is in flight, a command can       *)
(* start one.                                                                *)
Switch ==
  /\ op # other
  /\ op' = other
  /\ other' = op
  /\ UNCHANGED <<dateDelimiter, doc, mtime, now, hasTarget, hasDict, dict, tasks,
                 parsedFrom, view, plugin, last, nOps, nTicks, nEdits>>

(* The wall clock advances.                                                  *)
Tick ==
  /\ nTicks < MaxTicks
  /\ now' = now + TickSeconds
  /\ nTicks' = nTicks + 1
  /\ UNCHANGED <<dateDelimiter, doc, mtime, hasTarget, hasDict, dict, tasks,
                 parsedFrom, op, other, view, plugin, last, nOps, nEdits>>

MaxEdits == 1

(* The user edits the document in the editor: a new task line at the top,   *)
(* or the first line deleted.                                                *)
ExternalEdit ==
  /\ nEdits < MaxEdits
  /\ hasTarget
  /\ \/ doc' = <<TaskLine(FALSE, "-", FALSE, "E", NoAnn, TRUE, Some(5), NoAnn)>> \o doc
     \/ Len(doc) > 1 /\ doc' = Tail(doc)
  /\ mtime' = now
  /\ nEdits' = nEdits + 1
  /\ UNCHANGED <<dateDelimiter, now, hasTarget, hasDict, dict, tasks,
                 parsedFrom, op, other, view, plugin, last, nOps, nTicks>>

-----------------------------------------------------------------------------
(* The initial documents *)

StartClock == DaySeconds + 9 * 60 * SecondsPerMinute + 30

At(h, m) == h * 60 + m

Plain(name, est) == TaskLine(FALSE, "-", FALSE, name, NoAnn, TRUE, Some(est), NoAnn)

(* `- [ ] A ; 30`, `- [ ] B ; 10 @ 14:00`, `- [ ] B @ 14:00 ; 10`,           *)
(* `  - [ ] A ; 30`, `- [x] D ; 5 @ 08:00`                                   *)
LifecycleLines ==
  { Plain("A", 30),
    TaskLine(FALSE, "-", FALSE, "B", NoAnn, TRUE, Some(10), TimeAnn(At(14, 0))),
    TaskLine(FALSE, "-", FALSE, "B", TimeAnn(At(14, 0)), TRUE, Some(10), NoAnn),
    TaskLine(TRUE, "-", FALSE, "A", NoAnn, TRUE, Some(30), NoAnn),
    TaskLine(FALSE, "-", TRUE, "D", NoAnn, TRUE, Some(5), TimeAnn(At(8, 0))) }

(* `- [ ] A ; 30`, `+ [ ] A ; 30`, `- [ ] C ;`, `startTime: 08:45:00`,       *)
(* `- [ ] B ; 10 @ 1970-01-02T14:00`                                         *)
MarkerLines ==
  { Plain("A", 30),
    TaskLine(FALSE, "+", FALSE, "A", NoAnn, TRUE, Some(30), NoAnn),
    TaskLine(FALSE, "-", FALSE, "C", NoAnn, TRUE, None, NoAnn),
    MarkerLine(At(8, 45) * SecondsPerMinute),
    TaskLine(FALSE, "-", FALSE, "B", NoAnn, TRUE, Some(10),
             DateAnn(MinutesPerDay + At(14, 0))) }

(* `- [ ] A ; 30`, `- [ ] B ; 10 @ 14:00`, `- [x] D ; 5`, `- [ ] C`, `---`   *)
ScheduleLines ==
  { Plain("A", 30),
    TaskLine(FALSE, "-", FALSE, "B", NoAnn, TRUE, Some(10), TimeAnn(At(14, 0))),
    TaskLine(FALSE, "-", TRUE, "D", NoAnn, TRUE, Some(5), NoAnn),
    TaskLine(FALSE, "-", FALSE, "C", NoAnn, FALSE, None, NoAnn),
    RuleLine }

Alphabets == {LifecycleLines, MarkerLines, ScheduleLines}

(* What stands between two `---` lines at the head of a document: the        *)
(* marker, `fee $$5`, or `- [x] fee $$5 ; 5 @ 08:00`.                        *)
Heads ==
  { <<RuleLine, l, RuleLine>> :
      l \in { MarkerLine(At(8, 45) * SecondsPerMinute),
              TextLine("fee $$5"),
              TaskLine(FALSE, "-", TRUE, "fee $$5", NoAnn, TRUE, Some(5),
                       TimeAnn(At(8, 0))) } }

(* `- [ ] A ; 30`, `- [x] D ; 5 @ 08:00`                                     *)
HeadedLines ==
  { Plain("A", 30),
    TaskLine(FALSE, "-", TRUE, "D", NoAnn, TRUE, Some(5), TimeAnn(At(8, 0))) }

SeqsUpTo(a, n) == UNION { [1..k -> a] : k \in 0..n }

DocumentsUpTo(n) ==
  UNION { SeqsUpTo(a, n) \ {<<>>} : a \in Alphabets }
    \cup { h \o b : h \in Heads, b \in SeqsUpTo(HeadedLines, n) }

InitWith(documents, delimiters, dictionaries) ==
  /\ dateDelimiter \in delimiters
  /\ doc \in documents
  /\ now = StartClock
  /\ mtime = StartClock - 45 * SecondsPerMinute
  /\ hasTarget = TRUE
  /\ hasDict \in dictionaries
  /\ dict = <<>>
  /\ tasks = <<>>
  /\ parsedFrom = [doc |-> <<>>, mtime |-> 0, now |-> 0]
  /\ op = Idle
  /\ other = Idle
  /\ view = Mounted
  /\ plugin = Opened
  /\ last = Idle
  /\ nOps = 0
  /\ nTicks = 0
  /\ nEdits = 0

Step ==
  \/ CommandCompleteTask
  \/ CompleteTaskCall
  \/ CommandInterruptTask
  \/ InterruptRead
  \/ UpdateRead
  \/ DictionaryRead
  \/ DictionaryWrite
  \/ UpdateWrite
  \/ UpdateNow
  \/ UpdateYaml

-----------------------------------------------------------------------------
(* Spec: the commands one after the other.  Every operation runs from its   *)
(* command to its return before the clock advances or the task list is       *)
(* read again.                                                               *)

MaxLines == 2

Init == InitWith(DocumentsUpTo(MaxLines), {""}, {TRUE})

Next ==
  \/ Step
  \/ op.pc = "idle" /\ InitTimetableView
  \/ op.pc = "idle" /\ CheckTargetFile
  \/ op.pc = "idle" /\ Tick

Spec == Init /\ [][Next]_vars

(* SpecAsync: the clock advances and the user edits the document while an    *)
(* operation awaits.                                                         *)

MaxAsyncLines == 1
MaxAsyncOps == 1

(* Task lines `- [ ] A ; 30`, with and without a session-start marker ahead. *)
AsyncDocuments ==
  { h \o b :
      h \in { <<>>, <<RuleLine, MarkerLine(At(8, 45) * SecondsPerMinute), RuleLine>> },
      b \in SeqsUpTo({Plain("A", 30)}, MaxAsyncLines) \ {<<>>} }

InitAsync == InitWith(AsyncDocuments, {""}, {TRUE})

NextAsync ==
  \/ Step /\ nOps' <= MaxAsyncOps
  \/ op.pc = "idle" /\ InitTimetableView
  \/ Tick
  \/ ExternalEdit

SpecAsync == InitAsync /\ [][NextAsync]_vars

(* SpecParse: the task list of the documents, read at several instants.      *)

MaxParseLines == 4

InitParse == InitWith(DocumentsUpTo(MaxParseLines), {"", "---"}, {FALSE})

NextParse ==
  \/ InitTimetableView
  \/ Tick

SpecParse == InitParse /\ [][NextParse]_vars

(* The dictionary: documents under a session-start marker whose tasks are    *)
(* completed and interrupted, and a dictionary file that holds the recent    *)
(* times of earlier completions of A.                                        *)
DictLines == { Plain("A", 30), Plain("a, b", 30) }

MaxDictLines == 2

DictDocuments ==
  { <<RuleLine, MarkerLine(At(8, 45) * SecondsPerMinute), RuleLine>> \o b :
      b \in SeqsUpTo(DictLines, MaxDictLines) \ {<<>>} }

(* The elapsed times of earlier completions, in minutes.                     *)
Recorded(k) == [i \in 1..k |-> (7 * i) % 23]

Dictionaries ==
  { <<>> } \cup
  { <<DictEntry("A", Recorded(k)[k], Recorded(k))>> :
      k \in {1, 2, MaxRecent - 1, MaxRecent} }

InitDict ==
  /\ dateDelimiter = ""
  /\ doc \in DictDocuments
  /\ now = StartClock
  /\ mtime = StartClock - 45 * SecondsPerMinute
  /\ hasTarget = TRUE
  /\ hasDict = TRUE
  /\ dict \in Dictionaries
  /\ tasks = <<>>
  /\ parsedFrom = [doc |-> <<>>, mtime |-> 0, now |-> 0]
  /\ op = Idle
  /\ other = Idle
  /\ view = Mounted
  /\ plugin = Opened
  /\ last = Idle
  /\ nOps = 0
  /\ nTicks = 0
  /\ nEdits = 0

NextDict ==
  \/ Step
  \/ op.pc = "idle" /\ InitTimetableView
  \/ op.pc = "idle" /\ Tick

SpecDict == InitDict /\ [][NextDict]_vars

(* Commands issued back to back: a command can start an operation while the  *)
(* operation of the command before it is at one of its awaits.               *)
TwoDocuments ==
  { h \o <<Plain("A", 30), Plain("G", 20)>> :
      h \in { <<>>, <<RuleLine, MarkerLine(At(8, 45) * SecondsPerMinute), RuleLine>> } }

InitTwo ==
  /\ dateDelimiter = ""
  /\ doc \in TwoDocuments
  /\ now = StartClock
  /\ mtime = StartClock - 45 * SecondsPerMinute
  /\ hasTarget = TRUE
  /\ hasDict = TRUE
  /\ dict = <<>>
  /\ tasks = <<>>
  /\ parsedFrom = [doc |-> <<>>, mtime |-> 0, now |-> 0]
  /\ op = Idle
  /\ other = Idle
  /\ view = Mounted
  /\ plugin = Opened
  /\ last = Idle
  /\ nOps = 0
  /\ nTicks = 0
  /\ nEdits = 0

NextTwo ==
  \/ Step
  \/ Switch
  \/ op.pc = "idle" /\ InitTimetableView
  \/ op.pc = "idle" /\ Tick

SpecTwo == InitTwo /\ [][NextTwo]_vars

(* The views: the document is edited and the views are updated.              *)
MaxTimerLines == 2

TimerDocuments ==
  SeqsUpTo({Plain("A", 30), TextLine("note")}, MaxTimerLines) \ {<<>>}

InitTimer == InitWith(TimerDocuments, {""}, {FALSE})

NextTimer ==
  \/ ViewUpdate
  \/ ComponentUpdate
  \/ ExternalEdit
  \/ Tick

SpecTimer == InitTimer /\ [][NextTimer]_vars

(* The source file: the plugin is loaded with the stored settings, views     *)
(* are opened and refreshed, the user changes the setting and the active     *)
(* file.                                                                     *)
InitFile ==
  /\ dateDelimiter = ""
  /\ doc = <<Plain("A", 30)>>
  /\ now = StartClock
  /\ mtime = StartClock - 45 * SecondsPerMinute
  /\ hasTarget = FALSE
  /\ hasDict = FALSE
  /\ dict = <<>>
  /\ tasks = <<>>
  /\ parsedFrom = [doc |-> <<>>, mtime |-> 0, now |-> 0]
  /\ op = Idle
  /\ other = Idle
  /\ view = Mounted
  /\ \E path \in Paths, f \in {None} \cup { Some(x) : x \in Vault } :
       plugin = [targetFile |-> None, filePath |-> path, activeFile |-> f,
                 configured |-> path, checked |-> FALSE]
  /\ last = Idle
  /\ nOps = 0
  /\ nTicks = 0
  /\ nEdits = 0

NextFile ==
  \/ UpdateOpenViews
  \/ OnFilePathChange
  \/ SetActiveFile

SpecFile == InitFile /\ [][NextFile]_vars

(* The elapsed time: documents whose session-start marker is earlier than,   *)
(* equal to and later than the time of day of the clock, at several times    *)
(* of the day.                                                               *)
MarkerTimes ==
  { 0, At(8, 45) * SecondsPerMinute, At(9, 0) * SecondsPerMinute + 29,
    At(9, 0) * SecondsPerMinute + 30, At(9, 0) * SecondsPerMinute + 31,
    At(9, 1) * SecondsPerMinute + 30, At(14, 0) * SecondsPerMinute,
    DaySeconds - 1 }

Clocks == { StartClock, DaySeconds + 5, 2 * DaySeconds - 31 }

(* `- [ ] A ; 30`; `- [ ] C ;`, `- [ ] A ; 30`;                              *)
(* `+ [ ] A ; 30`, `- [ ] B ; 10 @ 14:00`                                    *)
ElapsedBodies ==
  { <<Plain("A", 30)>>,
    <<TaskLine(FALSE, "-", FALSE, "C", NoAnn, TRUE, None, NoAnn), Plain("A", 30)>>,
    <<TaskLine(FALSE, "+", FALSE, "A", NoAnn, TRUE, Some(30), NoAnn),
      TaskLine(FALSE, "-", FALSE, "B", NoAnn, TRUE, Some(10), TimeAnn(At(14, 0)))>> }

ElapsedDocuments ==
  { <<RuleLine, MarkerLine(t), RuleLine>> \o b :
      t \in MarkerTimes, b \in ElapsedBodies }

InitElapsed ==
  /\ dateDelimiter = ""
  /\ doc \in ElapsedDocuments
  /\ now \in Clocks
  /\ mtime = now - 45 * SecondsPerMinute
  /\ hasTarget = TRUE
  /\ hasDict = TRUE
  /\ dict = <<>>
  /\ tasks = <<>>
  /\ parsedFrom = [doc |-> <<>>, mtime |-> 0, now |-> 0]
  /\ op = Idle
  /\ other = Idle
  /\ view = Mounted
  /\ plugin = Opened
  /\ last = Idle
  /\ nOps = 0
  /\ nTicks = 0
  /\ nEdits = 0

NextElapsed ==
  \/ Step
  \/ op.pc = "idle" /\ InitTimetableView
  \/ op.pc = "idle" /\ Tick

SpecElapsed == InitElapsed /\ [][NextElapsed]_vars

(* The session-start marker: documents without frontmatter, with             *)
(* frontmatter without and with the marker, with `---` lines in the body,    *)
(* and with a `startTime:` line that stands outside the frontmatter.          *)
MarkerAt == MarkerLine(At(8, 45) * SecondsPerMinute)

MarkerDocuments ==
  { <<Plain("A", 30)>>,
    <<RuleLine, TextLine("tags: x"), RuleLine, Plain("A", 30)>>,
    <<RuleLine, MarkerAt, RuleLine, Plain("A", 30)>>,
    <<Plain("A", 30), RuleLine, TextLine("note"), RuleLine>>,
    <<RuleLine, MarkerAt, RuleLine, Plain("A", 30), RuleLine, TextLine("note"),
      RuleLine>>,
    <<MarkerAt, Plain("A", 30)>>,
    <<MarkerAt, RuleLine, TextLine("tags: x"), RuleLine, Plain("A", 30)>> }

InitMarker == InitWith(MarkerDocuments, {""}, {TRUE})

NextMarker ==
  \/ Step
  \/ op.pc = "idle" /\ InitTimetableView
  \/ op.pc = "idle" /\ Tick

SpecMarker == InitMarker /\ [][NextMarker]_vars

-----------------------------------------------------------------------------
(* TaskManager.ts: the task manager whose completeTask starts updateTask     *)
(* and setCurrentTaskStartTimeInYAML without awaiting either.  Its marker    *)
(* line is `startTime: YYYY-MM-DD HH:MM:SS`: the field at of a marker line   *)
(* holds the full date and time, in seconds.  Its parser takes yamlStartTime *)
(* as a parameter; parseStartTime and parseEstimate read a line as above.    *)
(* Here op is the call of updateTask and other the call of                   *)
(* setCurrentTaskStartTimeInYAML; each takes a step at each of its awaits.   *)

(* new RegExp(dateDelimiter).test(line): the empty pattern matches every     *)
(* line, the pattern `---` every line that contains it.                      *)
TMisDateDelimiterLine(l) ==
  \/ dateDelimiter = ""
  \/ dateDelimiter = "---" /\ l.kind = "rule"

TMgetYamlStartTime(content) ==
  LET i == FirstMarker(content, 1)
  IN  IF i = 0 THEN None ELSE Some(content[i].at)

(* One iteration of the reduce callback.  Lines are trimmed, a task line     *)
(* starts with `- [ ]` or `- [x]`, and every task line is pushed.            *)
TMParserStep(st, content, i, yamlStartTime, clock) ==
  LET l == content[i]
  IN
  IF TMisDateDelimiterLine(l) THEN [st EXCEPT !.dateDelimiterFound = TRUE]
  ELSE IF l.kind # "task" \/ l.mark # "-" THEN st
  ELSE
    LET isCompleted == l.done
        nextDay == IF st.dateDelimiterFound THEN st.nextDay + 1 ELSE st.nextDay
        parsed == parseStartTime(l, nextDay, clock)
        estimate == parseEstimate(l)
        first == ~isCompleted /\ ~st.firstUncompletedTaskFound /\ yamlStartTime # None
        startTime ==
          IF first THEN yamlStartTime
          ELSE IF parsed = None /\ st.previousEndTime # None
               THEN st.previousEndTime
          ELSE parsed
        endTime ==
          IF startTime # None /\ estimate # None
          THEN Some(startTime[1] + estimate[1] * SecondsPerMinute)
          ELSE None
        task == [task |-> l.name, startTime |-> startTime,
                 estimate |-> estimate, endTime |-> endTime,
                 isCompleted |-> isCompleted, previousTaskEndTime |-> None,
                 line |-> i]
    IN  [previousEndTime |-> IF endTime # None THEN endTime ELSE st.previousEndTime,
         firstUncompletedTaskFound |-> st.firstUncompletedTaskFound \/ first,
         nextDay |-> nextDay,
         dateDelimiterFound |-> FALSE,
         acc |-> Append(st.acc, task)]

RECURSIVE TMParserRun(_, _, _, _, _)
TMParserRun(st, content, i, yamlStartTime, clock) ==
  IF i > Len(content) THEN st
  ELSE TMParserRun(TMParserStep(st, content, i, yamlStartTime, clock),
                   content, i + 1, yamlStartTime, clock)

TMfilterAndParseTasks(content, yamlStartTime, clock) ==
  TMParserRun(ParserInit, content, 1, yamlStartTime, clock).acc

(* initializeTasks: previousTaskEndTime of each task is the endTime of the   *)
(* task before it, then tasks[0].startTime = yamlStartTime || mtime.         *)
TMinitializeTasks(content, modified, clock) ==
  LET yamlStartTime == TMgetYamlStartTime(content)
      ts == TMfilterAndParseTasks(content, yamlStartTime, clock)
      linked == [j \in 1..Len(ts) |->
                   [ts[j] EXCEPT !.previousTaskEndTime =
                                    IF j = 1 THEN None ELSE ts[j - 1].endTime]]
  IN  IF Len(ts) > 0
      THEN [linked EXCEPT ![1].startTime =
                            IF yamlStartTime # None THEN yamlStartTime
                            ELSE Some(modified)]
      ELSE linked

(* formatTime: `HH00` on the hour, `HH:MM` otherwise.  The annotation        *)
(* `@ HH00` has no colon: parseStartTime does not read it.                   *)
TMformatTime(date) ==
  LET hm == (date % DaySeconds) \div SecondsPerMinute
  IN  IF hm % 60 = 0 THEN [k |-> "digits", v |-> hm] ELSE TimeAnn(hm)

TMgetElapsedTime(task, clock) ==
  IF task.previousTaskEndTime = None THEN 0
  ELSE Max(0, (clock - task.previousTaskEndTime[1]) \div SecondsPerMinute)

(* The decimal digits of a are the first digits of b.                        *)
RECURSIVE DigitsPrefix(_, _)
DigitsPrefix(a, b) ==
  \/ a = b
  \/ b >= 10 /\ DigitsPrefix(a, b \div 10)

(* The first alternative of taskRegex: the estimate delimiter followed by    *)
(* the digits of task.estimate.                                              *)
TMEstimateMatches(l, task) ==
  /\ l.delim
  /\ l.est # None
  /\ DigitsPrefix(task.estimate[1], l.est[1])

(* taskRegex: `- [ ] ` at the very start of the line, a name, then either    *)
(* the estimate of the task after its delimiter, or `@` and three or four    *)
(* digits (the year of a date annotation has four).                          *)
TMTaskRegexMatches(l, task) ==
  /\ l.kind = "task"
  /\ ~l.ind
  /\ l.mark = "-"
  /\ ~l.done
  /\ \/ TMEstimateMatches(l, task)
     \/ l.pre.k # "none"
     \/ l.post.k # "none"

RECURSIVE TMFirstMatch(_, _, _)
TMFirstMatch(content, task, i) ==
  IF i > Len(content) THEN 0
  ELSE IF TMTaskRegexMatches(content[i], task) THEN i
  ELSE TMFirstMatch(content, task, i + 1)

(* newTaskLine: `- [x] name ; elapsed @ time`, name being the text before    *)
(* the leftmost match of an alternative.  When that is an annotation after   *)
(* an estimate that is not the task's, the name holds `; est` of the line:   *)
(* est stays the first estimate of the line and at holds the elapsed time    *)
(* written after it.                                                         *)
TMCompletedLine(l, task, elapsedTime, clock) ==
  LET written == TMformatTime(clock - elapsedTime * SecondsPerMinute)
  IN  IF l.pre.k = "none" /\ l.delim /\ l.est # None /\ ~TMEstimateMatches(l, task)
      THEN [TaskLine(FALSE, "-", TRUE, l.name, NoAnn, TRUE, l.est, written)
              EXCEPT !.at = elapsedTime]
      ELSE TaskLine(FALSE, "-", TRUE, l.name, NoAnn, TRUE, Some(elapsedTime), written)

(* remainingTime is None for undefined.                                      *)
TMupdateTaskInContent(content, task, elapsedTime, remainingTime, clock) ==
  LET i == TMFirstMatch(content, task, 1)
  IN  IF i = 0 THEN content
      ELSE LET rewritten ==
                 [content EXCEPT ![i] = TMCompletedLine(content[i], task, elapsedTime, clock)]
           IN  IF remainingTime # None
               THEN InsertAt(rewritten, i,
                             TaskLine(FALSE, "-", FALSE, content[i].name, NoAnn,
                                      TRUE, Some(remainingTime[1]), NoAnn))
               ELSE rewritten

TMupdateStartTimeInYAML(content, startTime) ==
  LET formattedTime == MarkerLine(startTime)
      open == YamlBlockOpen(content, 1)
  IN  IF open # 0 THEN
        LET close == NextRule(content, open + 2)
            yamlBlock == SubSeq(content, open + 1, close - 1)
            m == FirstMarker(yamlBlock, 1)
            newBlock == IF m # 0 THEN [yamlBlock EXCEPT ![m] = formattedTime]
                        ELSE Append(yamlBlock, formattedTime)
        IN  SubSeq(content, 1, open)
              \o [j \in 1..Len(newBlock) |-> SubstLine(newBlock[j])]
              \o SubSeq(content, close, Len(content))
      ELSE <<RuleLine, formattedTime, RuleLine>> \o content

(* What the steps of the two calls leave alone.                              *)
TMEnv == <<dateDelimiter, hasTarget, hasDict, dict, view, plugin, nTicks, nEdits>>

(* The view loads its task list: tasks = await initializeTasks().            *)
TMInitializeTasks ==
  /\ tasks' = IF hasTarget THEN TMinitializeTasks(doc, mtime, now) ELSE <<>>
  /\ parsedFrom' = [doc |-> doc, mtime |-> mtime, now |-> now]
  /\ \/ tasks' # tasks
     \/ parsedFrom' # parsedFrom
  /\ UNCHANGED <<doc, mtime, now, op, other, last, nOps, TMEnv>>

(* completeTask(firstUncompletedTask): updateTask and                        *)
(* setCurrentTaskStartTimeInYAML are called one after the other, each runs   *)
(* up to its first await, and neither promise is awaited.                    *)
TMCompleteTask ==
  /\ op.pc = "idle"
  /\ other.pc = "idle"
  /\ nOps < MaxOps
  /\ FindUncompleted(tasks, 1) # 0
  /\ LET o == [Started("complete") EXCEPT !.task = tasks[FindUncompleted(tasks, 1)]]
     IN  IF updateTaskReturns(hasTarget, o.task)
         THEN Return(o, doc, dict)
         ELSE op' = [o EXCEPT !.pc = "tm_read"] /\ UNCHANGED last
  /\ other' = IF hasTarget THEN [Started("yaml") EXCEPT !.pc = "ys_read"] ELSE Idle
  /\ nOps' = nOps + 1
  /\ UNCHANGED <<doc, mtime, now, tasks, parsedFrom, TMEnv>>

(* updateTask: the cachedRead settles; getElapsedTime, updateTaskInContent   *)
(* on the content read, and the call of initializeTasks.                     *)
TMUpdateRead ==
  /\ op.pc = "tm_read"
  /\ LET elapsedTime == TMgetElapsedTime(op.task, now)
     IN  op' = [op EXCEPT !.pc = "tm_init", !.read = doc,
                          !.elapsedTime = elapsedTime,
                          !.content = TMupdateTaskInContent(doc, op.task, elapsedTime,
                                                            op.remainingTime, now)]
  /\ UNCHANGED <<doc, mtime, now, tasks, parsedFrom, other, last, nOps, TMEnv>>

(* updateTask: initializeTasks settles with the list of the document as it   *)
(* is then; the marker is set in the content held, and vault.modify is       *)
(* called with it.                                                           *)
TMUpdateInit ==
  /\ op.pc = "tm_init"
  /\ LET ts == TMinitializeTasks(doc, mtime, now)
         withCurrent == IF Len(ts) > 0 /\ ts[1].startTime # None
                        THEN TMupdateStartTimeInYAML(op.content, ts[1].startTime[1])
                        ELSE op.content
     IN  op' = [op EXCEPT !.pc = "tm_write", !.now = now,
                          !.content = TMupdateStartTimeInYAML(withCurrent, now)]
  /\ UNCHANGED <<doc, mtime, now, tasks, parsedFrom, other, last, nOps, TMEnv>>

(* updateTask: its vault.modify replaces the text of the file.               *)
TMUpdateWrite ==
  /\ op.pc = "tm_write"
  /\ doc' = op.content
  /\ mtime' = now
  /\ Return([op EXCEPT !.wrote = doc', !.writeClock = now], doc', dict)
  /\ UNCHANGED <<now, tasks, parsedFrom, other, nOps, TMEnv>>

(* setCurrentTaskStartTimeInYAML: the cachedRead settles; the content is     *)
(* parsed, and when tasks[0] has a start time vault.modify is called with    *)
(* the content read and the marker set to it.                                *)
SetCurrentTaskStartTimeRead ==
  /\ other.pc = "ys_read"
  /\ LET ts == TMfilterAndParseTasks(doc, TMgetYamlStartTime(doc), now)
     IN  other' = IF Len(ts) > 0 /\ ts[1].startTime # None
                  THEN [other EXCEPT !.pc = "ys_write", !.read = doc,
                          !.content = TMupdateStartTimeInYAML(doc, ts[1].startTime[1])]
                  ELSE Idle
  /\ UNCHANGED <<doc, mtime, now, tasks, parsedFrom, op, last, nOps, TMEnv>>

(* setCurrentTaskStartTimeInYAML: its vault.modify replaces the text of the  *)
(* file.                                                                     *)
SetCurrentTaskStartTimeWrite ==
  /\ other.pc = "ys_write"
  /\ doc' = other.content
  /\ mtime' = now
  /\ other' = Idle
  /\ UNCHANGED <<now, tasks, parsedFrom, op, last, nOps, TMEnv>>

(* SpecRace: the two calls of one completeTask take their steps in every     *)
(* order; the clock may advance between any two steps.                       *)
DatedMarker == MarkerLine(StartClock - 45 * SecondsPerMinute)

RaceBodies ==
  { <<Plain("A", 30)>>,
    <<Plain("A", 30), Plain("B", 10)>>,
    <<TaskLine(FALSE, "-", FALSE, "A", NoAnn, TRUE, Some(30), TimeAnn(At(14, 0)))>>,
    <<TaskLine(FALSE, "-", TRUE, "D", NoAnn, TRUE, Some(5), TimeAnn(At(8, 0))),
      Plain("A", 30)>>,
    <<TaskLine(FALSE, "-", FALSE, "C", NoAnn, FALSE, None, NoAnn), Plain("A", 30)>> }

RaceDocuments ==
  RaceBodies \cup { <<RuleLine, DatedMarker, RuleLine>> \o b : b \in RaceBodies }

InitRace == InitWith(RaceDocuments, {"", "---"}, {FALSE})

NextRace ==
  \/ op.pc = "idle" /\ other.pc = "idle" /\ TMInitializeTasks
  \/ TMCompleteTask
  \/ TMUpdateRead
  \/ TMUpdateInit
  \/ TMUpdateWrite
  \/ SetCurrentTaskStartTimeRead
  \/ SetCurrentTaskStartTimeWrite
  \/ Tick

SpecRace == InitRace /\ [][NextRace]_vars

-----------------------------------------------------------------------------
(* Properties *)

(* The line of the current task of a document: the line of the first         *)
(* uncompleted task of the parser's list, 0 when there is none.              *)
CurrentLine(d) ==
  LET ts == filterAndParseTasks(d, StartClock)
      j == FindUncompleted(ts, 1)
  IN  IF j = 0 THEN 0 ELSE ts[j].line

(* The first line at which two documents differ, 0 when they are equal.      *)
RECURSIVE Diff(_, _, _)
Diff(a, b, i) ==
  IF i > Len(a) /\ i > Len(b) THEN 0
  ELSE IF i > Len(a) \/ i > Len(b) THEN i
  ELSE IF a[i] # b[i] THEN i
  ELSE Diff(a, b, i + 1)

RECURSIVE IsSubseq(_, _)
IsSubseq(a, b) ==
  IF a = <<>> THEN TRUE
  ELSE IF b = <<>> THEN FALSE
  ELSE IF Head(a) = Head(b) THEN IsSubseq(Tail(a), Tail(b))
  ELSE IsSubseq(a, Tail(b))

RECURSIVE Select(_, _, _)
Select(d, keep(_, _), i) ==
  IF i > Len(d) THEN <<>>
  ELSE IF keep(d, i) THEN <<d[i]>> \o Select(d, keep, i + 1)
  ELSE Select(d, keep, i + 1)

Finished(kinds) == last.pc = "done" /\ last.kind \in kinds

(* The line that the last operation rewrote: 0 when it rewrote none.         *)
Rewritten == Diff(last.read, last.wrote, 1)

(* C1: InterruptTask on a document with a current task marks that task's     *)
(* line completed and inserts exactly one line right after it, which is      *)
(* uncompleted, has the same name, an estimate and no start time; on the     *)
(* next parse the inserted line is the current task.                         *)
C1_InterruptSplitsCurrentTask ==
  (Finished({"interrupt"}) /\ last.hadTarget /\ CurrentLine(last.before) # 0) =>
    LET d == last.before
        w == last.wrote
        i == CurrentLine(d)
    IN  /\ Len(w) = Len(d) + 1
        /\ w[i].kind = "task" /\ w[i].done /\ w[i].name = d[i].name
        /\ w[i + 1].kind = "task" /\ ~w[i + 1].done
        /\ w[i + 1].name = d[i].name
        /\ parseEstimate(w[i + 1]) # None
        /\ w[i + 1].pre = NoAnn /\ w[i + 1].post = NoAnn
        /\ \A j \in 1..Len(d) : j # i => w[IF j < i THEN j ELSE j + 1] = d[j]
        /\ CurrentLine(last.after) # 0
        /\ last.after[CurrentLine(last.after)] = w[i + 1]

(* C2: the remaining time on the inserted line is max(0, E - e) for the      *)
(* original estimate E of the split line and the elapsed time e on the       *)
(* completed line, in every execution.                                       *)
C2_SplitArithmetic ==
  (Finished({"interrupt"}) /\ Rewritten # 0
     /\ parseEstimate(last.read[Rewritten]) # None) =>
    LET i == Rewritten
        E == parseEstimate(last.read[i])[1]
        e == parseEstimate(last.wrote[i])[1]
        r == parseEstimate(last.wrote[i + 1])[1]
    IN  r = Max(0, E - e)

(* C3: the line rewritten by CompleteTask/InterruptTask is the line of the   *)
(* current task.                                                             *)
C3_RewritesCurrentTask ==
  (Finished({"complete", "interrupt"}) /\ Rewritten # 0) =>
    Rewritten = CurrentLine(last.read)

(* C4: CompleteTask with a task whose line matches the rewrite regex no more *)
(* (no uncompleted line matches) leaves the document byte-identical.         *)
C4_CompleteIdempotent ==
  (Finished({"complete"}) /\ last.hadTarget /\ last.task.estimate # None
     /\ \A i \in 1..Len(last.before) : ~TaskRegexMatches(last.before[i])) =>
    last.after = last.before

IsKept(d, i) == i # Rewritten /\ d[i].kind # "marker"

(* C5: after CompleteTask/InterruptTask every line other than the rewritten  *)
(* line, the inserted line and the session-start marker is preserved         *)
(* verbatim, in the original order.                                          *)
C5_WriteBackFrame ==
  Finished({"complete", "interrupt"}) =>
    IsSubseq(Select(last.before, IsKept, 1), last.after)

IsDone(d, i) == d[i].kind = "task" /\ d[i].done

(* C6: a completed line is never rewritten, un-completed or removed by an    *)
(* operation.                                                                *)
C6_CompletedIsTerminal ==
  Finished({"complete", "interrupt"}) =>
    IsSubseq(Select(last.before, IsDone, 1), Select(last.after, IsDone, 1))

NoOpCase(o) ==
  \/ ~o.hadTarget
  \/ o.kind = "complete" /\ o.task.estimate = None

(* C7: with no target document, or a task without estimate passed to         *)
(* CompleteTask, the operation returns at once and leaves the document, the  *)
(* session-start marker and the dictionary unchanged.                        *)
C7_SilentNoOp ==
  /\ (op.pc # "idle") => ~NoOpCase(op)
  /\ (last.pc = "done" /\ NoOpCase(last)) =>
       (last.after = last.before /\ last.dictAfter = last.dictBefore)

C7_Witness ==
  /\ last.pc = "done"
  /\ last.kind = "complete"
  /\ last.task.estimate = None
  /\ last.hadTarget
  /\ FirstMarker(last.before, 1) # 0
  /\ last.dictBefore # <<>>

(* C8: in the list of initializeTasks every task without explicit start      *)
(* time that is not the first uncompleted task starts at the end of the      *)
(* task before it and ends its estimate later.                               *)
C8_Chaining ==
  \A j \in 2..Len(tasks) :
    (~tasks[j].originalStartTime /\ j # FindUncompleted(tasks, 1)) =>
      /\ tasks[j].startTime = tasks[j - 1].endTime
      /\ tasks[j].startTime # None
      /\ tasks[j].endTime =
           Some(tasks[j].startTime[1] + tasks[j].estimate[1] * SecondsPerMinute)

(* The annotation that gives a line its explicit start time.                 *)
ExplicitAnn(l) ==
  IF l.pre.k = "date" THEN l.pre
  ELSE IF l.post.k = "date" THEN l.post
  ELSE IF l.pre.k = "time" THEN l.pre
  ELSE l.post

(* C9: a task whose line carries an explicit start time starts exactly at    *)
(* that time, whatever precedes it.                                          *)
C9_ExplicitStartTime ==
  \A j \in 1..Len(tasks) :
    LET ann == ExplicitAnn(parsedFrom.doc[tasks[j].line])
    IN  /\ ann.k = "date" => tasks[j].startTime = Some(ann.v * SecondsPerMinute)
        /\ ann.k = "time" =>
             /\ tasks[j].startTime # None
             /\ tasks[j].startTime[1] % DaySeconds = ann.v * SecondsPerMinute

(* C10: the first uncompleted task starts at the session-start marker, else  *)
(* at the end of the task before it, else at the modification time.          *)
C10_FirstTaskAnchor ==
  LET j == FindUncompleted(tasks, 1)
      yaml == getYamlStartTime(parsedFrom.doc, parsedFrom.now)
  IN  j # 0 =>
        tasks[j].startTime =
          IF yaml # None THEN yaml
          ELSE IF j > 1 /\ tasks[j - 1].endTime # None THEN tasks[j - 1].endTime
          ELSE Some(parsedFrom.mtime)

DelimitersBefore(d, i) ==
  Cardinality({ k \in 1..(i - 1) :
                  /\ isDateDelimiterLine(d[k])
                  /\ \E m \in 1..(k - 1) :
                       d[m].kind = "task" /\ parseEstimate(d[m]) # None })

(* C12: the day offset of a task's bare explicit start time is the number of *)
(* date-delimiter lines that precede the task and follow a task line, each   *)
(* delimiter line counting once.                                             *)
C12_DayOffset ==
  \A j \in 1..Len(tasks) :
    LET l == parsedFrom.doc[tasks[j].line]
    IN  (ExplicitAnn(l).k = "time"
           /\ (tasks[j].isCompleted \/ j # FindUncompleted(tasks, 1))) =>
          /\ tasks[j].startTime # None
          /\ (tasks[j].startTime[1] - StartOfDay(parsedFrom.now)) \div DaySeconds
               = DelimitersBefore(parsedFrom.doc, tasks[j].line)

(* A document without its line k.                                            *)
RemoveAt(d, k) == [i \in 1..(Len(d) - 1) |-> IF i < k THEN d[i] ELSE d[i + 1]]

(* The schedule of a task list: the tasks without their line numbers.        *)
Schedule(ts) ==
  [j \in 1..Len(ts) |->
     [task |-> ts[j].task, startTime |-> ts[j].startTime,
      estimate |-> ts[j].estimate, endTime |-> ts[j].endTime,
      isCompleted |-> ts[j].isCompleted]]

IsIgnoredLine(l) == l.kind = "task" /\ parseEstimate(l) = None

(* C13: a checklist line without estimate is not in the parsed list, and     *)
(* parsing the document gives the same schedule as parsing it with that      *)
(* line removed.                                                             *)
C13_IgnoredLines ==
  parsedFrom.doc # <<>> =>
    \A k \in 1..Len(parsedFrom.doc) :
      IsIgnoredLine(parsedFrom.doc[k]) =>
        /\ \A j \in 1..Len(tasks) : tasks[j].line # k
        /\ Schedule(tasks) =
             Schedule(initializeTasks(RemoveAt(parsedFrom.doc, k),
                                      parsedFrom.mtime, parsedFrom.now))

RECURSIVE Reverse(_)
Reverse(s) == IF s = <<>> THEN <<>> ELSE Reverse(Tail(s)) \o <<Head(s)>>

IsCompletedTask(ts, j) == ts[j].isCompleted

IsUncompletedTask(ts, j) == ~ts[j].isCompleted

Window(d, name) ==
  IF DictLine(d, name, 1) = 0 THEN <<>> ELSE d[DictLine(d, name, 1)].recentTimes

(* The last n elements of a sequence.                                        *)
LastN(s, n) == SubSeq(s, Len(s) - n + 1, Len(s))

(* The last operation recorded its elapsed time in the dictionary.           *)
RecordedSample == last.pc = "done" /\ last.name # ""

(* C15: after a completion is recorded for a name, the stored recent times   *)
(* of the name are the earlier ones followed by the new elapsed time, cut    *)
(* to the most recent MaxRecent: at most MaxRecent entries, in arrival       *)
(* order, the oldest evicted first.                                          *)
C15_WindowBound ==
  RecordedSample =>
    LET all == Append(Window(last.dictBefore, last.name), last.elapsedTime)
        after == Window(last.dictAfter, last.name)
    IN  /\ Len(after) <= MaxRecent
        /\ after = LastN(all, Min(Len(all), MaxRecent))

(* The largest and the smallest value of a sequence.                         *)
MaxOf(s) == CHOOSE x \in { s[i] : i \in 1..Len(s) } : \A i \in 1..Len(s) : s[i] <= x

MinOf(s) == CHOOSE x \in { s[i] : i \in 1..Len(s) } : \A i \in 1..Len(s) : x <= s[i]

(* The smallest integer not below a / b, for b > 0.                          *)
CeilDiv(a, b) == (a + b - 1) \div b

(* The dictionary line that the last operation wrote.                        *)
Written == last.dictAfter[DictLine(last.dictAfter, last.name, 1)]

(* C16: the trimmed mean written for a window of more than two samples is    *)
(* the mean, rounded up, of the samples without one largest and one          *)
(* smallest; for one or two samples it is the median of the window, the      *)
(* single value or the mean of the two rounded up.                           *)
C16_TrimmedMean ==
  RecordedSample =>
    LET w == Written.recentTimes
        n == Len(w)
    IN  /\ n > 2 =>
             Written.trimmedMean = CeilDiv(SumSeq(w) - MaxOf(w) - MinOf(w), n - 2)
        /\ n <= 2 => Written.trimmedMean = Written.median
        /\ n = 1 => Written.trimmedMean = w[1]
        /\ n = 2 => Written.trimmedMean = CeilDiv(w[1] + w[2], 2)

(* A window of more than two samples was written whose trimmed mean is       *)
(* rounded up and differs from its median.                                   *)
C16_Witness ==
  /\ RecordedSample
  /\ Len(Written.recentTimes) > 2
  /\ (SumSeq(Written.recentTimes) - MaxOf(Written.recentTimes)
        - MinOf(Written.recentTimes)) % (Len(Written.recentTimes) - 2) # 0
  /\ Written.trimmedMean # Written.median

(* The number of samples in a dictionary, and of completed lines in a        *)
(* document.                                                                 *)
RECURSIVE Samples(_)
Samples(d) == IF d = <<>> THEN 0 ELSE Len(Head(d).recentTimes) + Samples(Tail(d))

CompletedLines(d) == Cardinality({ i \in 1..Len(d) : IsDone(d, i) })

(* C17: the operations never interleave: no operation is started while       *)
(* another one is in flight, and two commands issued back to back process    *)
(* two tasks, as two operations one after the other do.                      *)
C17_RunToCompletion ==
  /\ ~(op.pc # "idle" /\ other.pc # "idle")
  /\ (op.pc = "idle" /\ other.pc = "idle" /\ Samples(dict) = 2) =>
       CompletedLines(doc) = 2

(* C18: the first write of an operation is the rewrite of the text it read   *)
(* at its start: when the document was changed after the read and before    *)
(* the write, the write replaces the whole text and the change is lost.      *)
C18_LostExternalEdit ==
  (op.pc = "ut_now" /\ doc = op.wrote) =>
    doc = updateTaskInContent(op.read, op.elapsedTime, op.remainingTime,
                              op.writeClock)

(* A task line was added to a one-line document after the operation read it  *)
(* and before it wrote, and the written document does not have it.           *)
C18_Witness ==
  /\ op.pc = "ut_now"
  /\ doc = op.wrote
  /\ nEdits = 1
  /\ Len(op.read) = 1
  /\ op.read = op.before
  /\ \A i \in 1..Len(doc) : doc[i].name # "E"

(* C19: after every refresh of the task list each view has at most one       *)
(* active progress timer and it refers to the list loaded last; no timer of  *)
(* a superseded list is left, also when the refreshed list is empty.         *)
C19_TimerCancellation ==
  /\ Cardinality(view.timers) <= 1
  /\ \A t \in view.timers : t.tasks = view.tasks
  /\ Cardinality(view.effectTimers) <= 1
  /\ \A t \in view.effectTimers : t.tasks = view.state

(* C20: when a file path is entered in the settings, then after any          *)
(* checkTargetFile calls the target file is the file at that path and the    *)
(* stored path is still the one entered; the active file is not used.        *)
C20_ConfiguredSourceFile ==
  (plugin.checked /\ plugin.configured # "") =>
     /\ plugin.targetFile = getAbstractFileByPath(plugin.configured)
     /\ plugin.filePath = plugin.configured

(* C21: the line that CompleteTask writes over a task line parses, with the   *)
(* same settings, as a completed task whose estimate is the elapsed minutes   *)
(* and whose explicit start time is the time of the rewrite less the elapsed  *)
(* minutes, to the minute; for each line form `name ; estimate`,              *)
(* `name ; estimate @ start` and `name @ start ; estimate`.                   *)
C21_CompleteRoundTrip ==
  (Finished({"complete"}) /\ Rewritten # 0) =>
    LET w == last.wrote[Rewritten]
        start == parseStartTime(w, 0, last.writeClock)
    IN  /\ w.kind = "task" /\ w.done
        /\ parseEstimate(w) = Some(last.elapsedTime)
        /\ start # None
        /\ start[1] \div SecondsPerMinute =
             (last.writeClock - last.elapsedTime * SecondsPerMinute)
               \div SecondsPerMinute

(* C22: the elapsed minutes that CompleteTask writes are the whole minutes    *)
(* from the start time that initializeTasks gives the current task of the     *)
(* same document to the time of the operation, also when the document has no *)
(* session-start marker and that start time is the modification time.        *)
C22_ElapsedFromComputedStart ==
  (Finished({"complete"}) /\ Rewritten # 0 /\ parsedFrom.doc = last.read) =>
    LET ts == initializeTasks(last.read, parsedFrom.mtime, last.writeClock)
        j == FindUncompleted(ts, 1)
    IN  (j # 0 /\ ts[j].startTime # None) =>
          parseEstimate(last.wrote[Rewritten]) =
            Some((last.writeClock - ts[j].startTime[1]) \div SecondsPerMinute)

(* The operation that finished last read a document with a session-start     *)
(* marker and computed its elapsed time from it.                             *)
ElapsedComputed ==
  /\ Finished({"complete", "interrupt"})
  /\ last.hadTarget
  /\ last.task.estimate # None
  /\ FirstMarker(last.read, 1) # 0

(* The time of day of the marker that the last operation read, and of the    *)
(* clock when it read it, in seconds.                                        *)
MarkerOfDay == last.read[FirstMarker(last.read, 1)].at

ClockOfDay == last.writeClock % DaySeconds

(* C23: getElapsedTime returns an integer in 0..1439: the whole minutes from  *)
(* the marker's time of day to the clock, and when the marker's time of day   *)
(* is later than the clock the whole minutes of that difference plus 1440.    *)
C23_ElapsedRollover ==
  ElapsedComputed =>
    /\ last.elapsedTime \in 0..(MinutesPerDay - 1)
    /\ MarkerOfDay <= ClockOfDay =>
         last.elapsedTime = (ClockOfDay - MarkerOfDay) \div SecondsPerMinute
    /\ MarkerOfDay > ClockOfDay =>
         last.elapsedTime =
           (ClockOfDay - MarkerOfDay + DaySeconds) \div SecondsPerMinute

(* An operation ran at 09:00:30 on a document whose marker is 14:00:00, and   *)
(* its elapsed time is 19 hours and 30 seconds, floored to 1140 minutes.      *)
C23_Witness ==
  /\ ElapsedComputed
  /\ MarkerOfDay = At(14, 0) * SecondsPerMinute
  /\ ClockOfDay = At(9, 0) * SecondsPerMinute + 30
  /\ last.elapsedTime = 19 * 60
  /\ last.wrote # last.read

(* The last operation passed its preconditions and ran to its end.           *)
PassedPreconditions ==
  /\ Finished({"complete", "interrupt"})
  /\ last.hadTarget
  /\ last.task.estimate # None

Markers(d) == { i \in 1..Len(d) : d[i].kind = "marker" }

(* C24: after every CompleteTask/InterruptTask that passes its preconditions *)
(* the document has exactly one `startTime:` marker line, and                 *)
(* getYamlStartTime reads from it the time of day, to the second, at which    *)
(* the operation ran, whatever the shape of the document before.              *)
C24_MarkerUpdate ==
  PassedPreconditions =>
    /\ Cardinality(Markers(last.after)) = 1
    /\ getYamlStartTime(last.after, last.now) # None
    /\ getYamlStartTime(last.after, last.now)[1] % DaySeconds = last.now % DaySeconds

(* The task of a list that comes from line n of the document.                *)
TaskOfLine(ts, n) == CHOOSE j \in 1..Len(ts) : ts[j].line = n

(* C25: a buffer row stands only in front of an uncompleted task with an      *)
(* explicit start time, its value is the minutes, rounded up, from the end    *)
(* of the task before it in document order to that start time, and the rows  *)
(* are the same with showCompletedTasks on and off.                           *)
C25_BufferTime ==
  /\ \A show \in BOOLEAN :
       \A r \in BufferRows(tasks, show, parsedFrom.now) :
         LET j == TaskOfLine(tasks, r.line)
         IN  /\ ~tasks[j].isCompleted
             /\ tasks[j].originalStartTime
             /\ j > 1
             /\ tasks[j - 1].endTime # None
             /\ r.bufferTime =
                  CeilDiv(tasks[j].startTime[1] - tasks[j - 1].endTime[1],
                          SecondsPerMinute)
  /\ BufferRows(tasks, TRUE, parsedFrom.now) = BufferRows(tasks, FALSE, parsedFrom.now)

(* C26: the task list computed at one instant from a document and its         *)
(* modification time has the same start and end times, and the same buffer    *)
(* rows, as the list computed from the same document and modification time    *)
(* at any other instant of the same day.                                      *)
C26_ScheduleStability ==
  StartOfDay(now) = StartOfDay(parsedFrom.now) =>
    LET again == initializeTasks(parsedFrom.doc, parsedFrom.mtime, now)
    IN  /\ Schedule(again) = Schedule(tasks)
        /\ \A show \in BOOLEAN :
             BufferRows(again, show, now) = BufferRows(tasks, show, parsedFrom.now)

(* The number of uncompleted task lines of a document: the checklist lines   *)
(* `[ ]` that carry the estimate delimiter or a start-time annotation.        *)
UncompletedTaskLines(d) ==
  Cardinality({ i \in 1..Len(d) :
                  /\ d[i].kind = "task"
                  /\ ~d[i].done
                  /\ (d[i].delim \/ d[i].pre # NoAnn \/ d[i].post # NoAnn) })

(* C27: a CompleteTask that rewrites a line leaves one uncompleted task line *)
(* less in the document and one that rewrites none leaves as many; an         *)
(* InterruptTask leaves as many, also when the remaining estimate is 0, so    *)
(* it never takes the last uncompleted task line away.                        *)
C27_LifecycleProgress ==
  /\ (Finished({"complete"}) /\ Rewritten # 0) =>
       UncompletedTaskLines(last.after) = UncompletedTaskLines(last.before) - 1
  /\ (Finished({"complete"}) /\ Rewritten = 0) =>
       UncompletedTaskLines(last.after) = UncompletedTaskLines(last.before)
  /\ Finished({"interrupt"}) =>
       UncompletedTaskLines(last.after) = UncompletedTaskLines(last.before)

(* An InterruptTask whose remaining estimate is 0 rewrote the only            *)
(* uncompleted task line and inserted the line `- [ ] A ; 0` after it.        *)
C27_Witness ==
  /\ Finished({"interrupt"})
  /\ Rewritten # 0
  /\ last.remainingTime = Some(0)
  /\ UncompletedTaskLines(last.before) = 1
  /\ last.wrote[Rewritten + 1] = Plain("A", 0)
  /\ UncompletedTaskLines(last.after) = 1

(* C28: an operation records a duration sample under a task name only when   *)
(* the line it rewrites to completed is the line of the task of that name;   *)
(* an operation that rewrites no line records no sample.                      *)
C28_HistoryMatchesDocument ==
  RecordedSample =>
    /\ Rewritten # 0
    /\ last.wrote[Rewritten].done
    /\ last.read[Rewritten].name = last.name

(* C29: once the task list has been loaded, whenever no operation is in       *)
(* flight plugin.tasks is the list of the document as it is now, so the       *)
(* Complete and Interrupt commands act exactly when the document has an       *)
(* uncompleted task.                                                          *)
C29_CommandPrecondition ==
  (op.pc = "idle" /\ hasTarget /\ parsedFrom.now # 0) =>
    /\ parsedFrom.doc = doc
    /\ (FindUncompleted(tasks, 1) # 0) <=>
         (FindUncompleted(filterAndParseTasks(doc, now), 1) # 0)

(* The last completeTask has run to the end: updateTask has rewritten a line *)
(* of the content it read and has written the file, and                      *)
(* setCurrentTaskStartTimeInYAML has returned too.                           *)
BothFinished ==
  /\ op.pc = "idle"
  /\ other.pc = "idle"
  /\ last.pc = "done"
  /\ last.kind = "complete"
  /\ last.writeClock # 0
  /\ TMFirstMatch(last.read, last.task, 1) # 0

(* C30: in the task manager whose completeTask starts updateTask and         *)
(* setCurrentTaskStartTimeInYAML without awaiting either, once both have     *)
(* finished the document shows the line of the completed task marked `[x]`,  *)
(* whatever the order of their reads and writes: the document has one        *)
(* completed line more than the text updateTask read, so the write of        *)
(* setCurrentTaskStartTimeInYAML has not put the text from before the        *)
(* completion back.                                                          *)
C30_CompletionSurvivesRace ==
  BothFinished => CompletedLines(doc) = CompletedLines(last.read) + 1

====
